---- MODULE Spec2Model ----
(***************************************************************************)
(* Phone-number formatter of src/main.py: normalizar_telefone and          *)
(* formatar_numero.  A string is a sequence of one-character strings.      *)
(* formatar_numero is a pure function, modelled by the operator of the     *)
(* same name; the state machine draws an input string, calls the function  *)
(* on it and calls it again on what came back (the double application of   *)
(* a column that is processed twice).                                      *)
(***************************************************************************)
EXTENDS Integers, Sequences, FiniteSets, TLC

VARIABLES numero, pc, digits, ddd, local, linha, resultado, resultado2

vars == <<numero, pc, digits, ddd, local, linha, resultado, resultado2>>

-----------------------------------------------------------------------------
(* Bounds of the input strings.  An input is a free head of at most HeadLen *)
(* characters of Alphabet, alone or followed by the first n characters of   *)
(* one of the Tails, MinTail <= n <= MaxTail.  Heads alone give every       *)
(* string of up to HeadLen characters; with a tail the strings carry up to  *)
(* HeadLen + MaxTail digits, which covers the lengths 9 to 12 around the    *)
(* length check behind each of the prefixes "", "0", "55" and "055".        *)

HeadLen == 5

MinTail == 6

MaxTail == 9

DecimalDigits == {"0", "1", "2", "3", "4", "5", "6", "7", "8", "9"}

Alphabet == {"0", "2", "3", "5", "9", "+"}

Tails == { <<"9", "8", "7", "6", "5", "4", "3", "2", "1", "9", "8", "7">>,
           <<"8", "7", "6", "5", "4", "3", "2", "1", "9", "8", "7", "6">> }

RECURSIVE SeqsUpTo(_)
SeqsUpTo(n) ==
    IF n = 0 THEN { <<>> }
    ELSE LET shorter == SeqsUpTo(n - 1)
         IN  shorter \cup { Append(s, c) : s \in { t \in shorter : Len(t) = n - 1 },
                                            c \in Alphabet }

Heads == SeqsUpTo(HeadLen)

Inputs ==
    Heads \cup { h \o SubSeq(t, 1, n) : h \in Heads, t \in Tails, n \in MinTail..MaxTail }

-----------------------------------------------------------------------------
(* Helpers for Python's str operations.                                     *)

StartsWith(s, p) == Len(s) >= Len(p) /\ SubSeq(s, 1, Len(p)) = p

Drop(s, n) == SubSeq(s, n + 1, Len(s))

IsDigit(c) == c \in DecimalDigits

DigitValue(c) ==
    CASE c = "0" -> 0 [] c = "1" -> 1 [] c = "2" -> 2 [] c = "3" -> 3
      [] c = "4" -> 4 [] c = "5" -> 5 [] c = "6" -> 6 [] c = "7" -> 7
      [] c = "8" -> 8 [] c = "9" -> 9

(* int(s): the value of a non-empty all-digit string, ValueError otherwise. *)
ValueError == -1

RECURSIVE DecimalValue(_)
DecimalValue(s) ==
    IF s = <<>> THEN 0
    ELSE 10 * DecimalValue(SubSeq(s, 1, Len(s) - 1)) + DigitValue(s[Len(s)])

ParseInt(s) ==
    IF s # <<>> /\ \A i \in 1..Len(s) : IsDigit(s[i])
    THEN DecimalValue(s)
    ELSE ValueError

-----------------------------------------------------------------------------
(* Variants of the operators below, each the slip named in its comment;     *)
(* the properties are re-checked with an operator replaced by its variant.  *)

(* The pattern [^\d+] instead of \D: a "+" survives the substitution.       *)
normalizar_telefone_KeepPlus(s) == SelectSeq(s, LAMBDA c : IsDigit(c) \/ c = "+")

(* re.sub(..., count=1): only the first non-digit is removed.               *)
normalizar_telefone_FirstOnly(s) ==
    IF \A i \in 1..Len(s) : IsDigit(s[i]) THEN s
    ELSE LET i == CHOOSE k \in 1..Len(s) :
                      ~IsDigit(s[k]) /\ \A j \in 1..(k - 1) : IsDigit(s[j])
         IN  SubSeq(s, 1, i - 1) \o SubSeq(s, i + 1, Len(s))

(* normalizar_telefone: re.sub(r'\D', '', numero).                          *)

normalizar_telefone(s) == SelectSeq(s, IsDigit)

(* digits[2:] instead of digits[1:].                                        *)
StripTrunk_TwoDigits(d) == IF StartsWith(d, <<"0">>) THEN Drop(d, 2) ELSE d

(* formatar_numero, lines 44-46: one leading trunk "0" is removed.          *)
StripTrunk(d) == IF StartsWith(d, <<"0">>) THEN Drop(d, 1) ELSE d

(* digits[1:] instead of digits[2:].                                        *)
StripCountry_OneDigit(d) == IF StartsWith(d, <<"5", "5">>) THEN Drop(d, 1) ELSE d

(* formatar_numero, lines 48-50: one leading country code "55" is removed.  *)
StripCountry(d) == IF StartsWith(d, <<"5", "5">>) THEN Drop(d, 2) ELSE d

(* The two removals in the other order: country code first, trunk second.   *)
DigitsAtCheck_CountryFirst(s) == StripTrunk(StripCountry(normalizar_telefone(s)))

(* The value of `digits` when the length check of line 53 reads it.         *)
DigitsAtCheck(s) == StripCountry(StripTrunk(normalizar_telefone(s)))

(* len(digits) < 10 instead of len(digits) not in (10, 11).                 *)
LengthOk_AtLeast10(d) == Len(d) >= 10

(* Line 53: len(digits) not in (10, 11).                                    *)
LengthOk(d) == Len(d) \in {10, 11}

(* The "9" is added only to an 8-digit local part.                          *)
AdjustLocal_OnlyEightDigits(dddInt, loc) ==
    IF dddInt < 30
    THEN IF Len(loc) = 8 /\ ~StartsWith(loc, <<"9">>) THEN <<"9">> \o loc ELSE loc
    ELSE IF Len(loc) = 9 /\ StartsWith(loc, <<"9">>) THEN Drop(loc, 1) ELSE loc

(* ddd_int <= 30 instead of ddd_int < 30.                                   *)
AdjustLocal_ThresholdIncluded(dddInt, loc) ==
    IF dddInt <= 30
    THEN IF ~StartsWith(loc, <<"9">>) THEN <<"9">> \o loc ELSE loc
    ELSE IF Len(loc) = 9 /\ StartsWith(loc, <<"9">>) THEN Drop(loc, 1) ELSE loc

(* The leading "9" is dropped whatever the length of the local part.        *)
AdjustLocal_DropAnyNine(dddInt, loc) ==
    IF dddInt < 30
    THEN IF ~StartsWith(loc, <<"9">>) THEN <<"9">> \o loc ELSE loc
    ELSE IF StartsWith(loc, <<"9">>) THEN Drop(loc, 1) ELSE loc

(* Lines 64-74: the ninth-digit rule on the local part.                     *)
AdjustLocal(dddInt, loc) ==
    IF dddInt < 30
    THEN IF ~StartsWith(loc, <<"9">>) THEN <<"9">> \o loc ELSE loc
    ELSE IF Len(loc) = 9 /\ StartsWith(loc, <<"9">>) THEN Drop(loc, 1) ELSE loc

(* One call of formatar_numero: the returned string, the line of the return *)
(* statement that produced it, and the locals at that point.                *)
Call(s) ==
    LET d == DigitsAtCheck(s) IN
    IF ~LengthOk(d)
    THEN [value |-> s, line |-> 54, digits |-> d, ddd |-> <<>>, local |-> <<>>]
    ELSE LET dd  == SubSeq(d, 1, 2)
             loc == Drop(d, 2)
             n   == ParseInt(dd)
         IN  IF n = ValueError
             THEN [value |-> s, line |-> 62, digits |-> d, ddd |-> dd, local |-> loc]
             ELSE [value |-> <<"+", "5", "5">> \o dd \o AdjustLocal(n, loc),
                   line |-> 76, digits |-> d, ddd |-> dd, local |-> loc]

formatar_numero(s) == Call(s).value

-----------------------------------------------------------------------------
(* The state machine.                                                       *)

Init ==
    /\ numero \in Inputs
    /\ pc = "input"
    /\ digits = <<>>
    /\ ddd = <<>>
    /\ local = <<>>
    /\ linha = 0
    /\ resultado = <<>>
    /\ resultado2 = <<>>

(* df[col].apply(formatar_numero): the call on one cell.                    *)
Format ==
    /\ pc = "input"
    /\ LET r == Call(numero) IN
        /\ digits' = r.digits
        /\ ddd' = r.ddd
        /\ local' = r.local
        /\ linha' = r.line
        /\ resultado' = r.value
    /\ pc' = "formatted"
    /\ UNCHANGED <<numero, resultado2>>

(* The same cell processed a second time: the output is fed back in.        *)
Reformat ==
    /\ pc = "formatted"
    /\ resultado2' = formatar_numero(resultado)
    /\ pc' = "reformatted"
    /\ UNCHANGED <<numero, digits, ddd, local, linha, resultado>>

Next == Format \/ Reformat

Spec == Init /\ [][Next]_vars

-----------------------------------------------------------------------------
(* Reference definitions used by the properties below.  They restate what   *)
(* the documentation promises, independently of the operators above.        *)

OnlyDigits(s) == SelectSeq(s, LAMBDA c : c \in DecimalDigits)

AllDigits(s) == \A i \in 1..Len(s) : s[i] \in DecimalDigits

Plus55 == <<"+", "5", "5">>

(* "+55", two digits of DDD, then 8 or 9 digits of local number.            *)
IsCanonicalShape(r) ==
    /\ Len(r) \in {13, 14}
    /\ SubSeq(r, 1, 3) = Plus55
    /\ AllDigits(Drop(r, 3))

(* The digit string with one leading "0" and then one leading "55" removed. *)
ExpectedDigits(s) ==
    LET a == OnlyDigits(s)
        b == IF a # <<>> /\ a[1] = "0" THEN Tail(a) ELSE a
    IN  IF Len(b) >= 2 /\ b[1] = "5" /\ b[2] = "5" THEN Tail(Tail(b)) ELSE b

TwoDigitValue(d) == 10 * DigitValue(d[1]) + DigitValue(d[2])

(* A DDD plus local number written with digits only.                        *)
IsBareNumber(d) == AllDigits(d) /\ Len(d) \in {10, 11}

Called == pc # "input"

-----------------------------------------------------------------------------
(* C1: every result is the input itself or has the shape "+55" + 2 digits   *)
(* of DDD + 8 or 9 digits of local number; no other shape is produced.      *)
C1_OutputShape ==
    Called => (resultado = numero \/ IsCanonicalShape(resultado))

(* C2: when the digit string left after removing one leading "0" and then   *)
(* one leading "55" has a length other than 10 or 11, the call returns the  *)
(* input string itself, character for character, from the length check.     *)
C2_FallbackIdentity ==
    (Called /\ Len(ExpectedDigits(numero)) \notin {10, 11})
        => (resultado = numero /\ linha = 54)

C2_Witness ==
    /\ pc = "formatted"
    /\ Len(ExpectedDigits(numero)) = 12
    /\ \E i \in 1..Len(numero) : numero[i] = "+"
    /\ resultado = numero

(* C3: with 10 or 11 digits left and a DDD below 30 the result is           *)
(* "+55" + ddd + L, L being local when it starts with "9" and "9" + local   *)
(* otherwise, so the local part of the result starts with "9".              *)
C3_NinthDigitAdded ==
    LET d == ExpectedDigits(numero) IN
    (Called /\ Len(d) \in {10, 11} /\ TwoDigitValue(d) < 30)
        => LET dd  == SubSeq(d, 1, 2)
               loc == SubSeq(d, 3, Len(d))
               L   == IF loc[1] = "9" THEN loc ELSE <<"9">> \o loc
           IN  /\ resultado = Plus55 \o dd \o L
               /\ resultado[6] = "9"

C3_Witness ==
    /\ pc = "formatted"
    /\ Len(digits) = 11
    /\ TwoDigitValue(digits) = 29
    /\ local[1] = "8"
    /\ resultado = Plus55 \o ddd \o <<"9">> \o local

(* C4: with 10 or 11 digits left and a DDD of 30 or more the result is      *)
(* "+55" + ddd + L, L being local without its first digit exactly when      *)
(* local has 9 digits and starts with "9", and local otherwise; no such     *)
(* result has a 9-digit local part starting with "9".                       *)
C4_NinthDigitRemoved ==
    LET d == ExpectedDigits(numero) IN
    (Called /\ Len(d) \in {10, 11} /\ TwoDigitValue(d) >= 30)
        => LET dd  == SubSeq(d, 1, 2)
               loc == SubSeq(d, 3, Len(d))
               L   == IF Len(loc) = 9 /\ loc[1] = "9" THEN Tail(loc) ELSE loc
           IN  /\ resultado = Plus55 \o dd \o L
               /\ ~(Len(resultado) = 14 /\ resultado[6] = "9")

C4_Witness ==
    /\ pc = "formatted"
    /\ linha = 76
    /\ TwoDigitValue(digits) = 30
    /\ Len(local) = 9
    /\ local[1] = "9"
    /\ resultado = Plus55 \o ddd \o Tail(local)

(* C5 as stated: for every string d of 10 or 11 digits, the call on         *)
(* "55" + d returns what the call on d returns.                             *)
C5_CountryTransparent ==
    (pc = "formatted" /\ StartsWith(numero, <<"5", "5">>)
                      /\ IsBareNumber(Drop(numero, 2)))
        => resultado = formatar_numero(Drop(numero, 2))

(* C5 amended: for every string d of 10 or 11 digits that starts with       *)
(* neither "0" nor "55", the call on "55" + d returns what the call on d    *)
(* returns, and that is a "+55..." string built from d.                     *)
C5_CountryTransparentAmended ==
    LET d == Drop(numero, 2) IN
    (pc = "formatted" /\ StartsWith(numero, <<"5", "5">>) /\ IsBareNumber(d)
                      /\ d[1] # "0" /\ SubSeq(d, 1, 2) # <<"5", "5">>)
        => /\ resultado = formatar_numero(d)
           /\ SubSeq(resultado, 1, 5) = Plus55 \o SubSeq(d, 1, 2)

C5_Witness ==
    /\ pc = "formatted"
    /\ numero = <<"5", "5", "2", "9", "9", "8", "7", "6", "5", "4", "3", "2", "1">>
    /\ resultado = Plus55 \o Drop(numero, 2)
    /\ resultado = formatar_numero(Drop(numero, 2))

(* C6 as stated: for every string d of 10 or 11 digits, the call on         *)
(* "0" + d returns what the call on d returns.                              *)
C6_TrunkTransparent ==
    (pc = "formatted" /\ StartsWith(numero, <<"0">>)
                      /\ IsBareNumber(Drop(numero, 1)))
        => resultado = formatar_numero(Drop(numero, 1))

(* C6 amended: for every string d of 10 or 11 digits that starts with       *)
(* neither "0" nor "55", the call on "0" + d returns what the call on d     *)
(* returns, and that is a "+55..." string built from d.                     *)
C6_TrunkTransparentAmended ==
    LET d == Drop(numero, 1) IN
    (pc = "formatted" /\ StartsWith(numero, <<"0">>) /\ IsBareNumber(d)
                      /\ d[1] # "0" /\ SubSeq(d, 1, 2) # <<"5", "5">>)
        => /\ resultado = formatar_numero(d)
           /\ SubSeq(resultado, 1, 5) = Plus55 \o SubSeq(d, 1, 2)

C6_Witness ==
    /\ pc = "formatted"
    /\ numero = <<"0", "3", "0", "9", "8", "7", "6", "5", "4", "3", "2", "1">>
    /\ resultado = Plus55 \o <<"3", "0", "8", "7", "6", "5", "4", "3", "2", "1">>
    /\ resultado = formatar_numero(Drop(numero, 1))

(* C7: the digit string that reaches the length check and the DDD/local     *)
(* split is the raw digit string with at most one leading "0" removed first *)
(* and then at most one leading "55" removed: "055" + d is reduced to d,    *)
(* "00" + d keeps one "0" and "550" + d keeps the "0".                      *)
C7_SinglePassStripping ==
    Called =>
        LET raw == OnlyDigits(numero) IN
        /\ digits = ExpectedDigits(numero)
        /\ StartsWith(raw, <<"0", "5", "5">>) => digits = Drop(raw, 3)
        /\ StartsWith(raw, <<"0", "0">>) => digits = Drop(raw, 1)
        /\ StartsWith(raw, <<"5", "5", "0">>) => digits = Drop(raw, 2)
        /\ linha = 76 => (ddd = SubSeq(digits, 1, 2) /\ ddd \o local = digits)

C7_Witness ==
    /\ pc = "formatted"
    /\ StartsWith(OnlyDigits(numero), <<"5", "5", "0">>)
    /\ digits[1] = "0"
    /\ linha = 76

(* C8: applying the function to its own result gives that result again,     *)
(* whether the first call fell back or returned a "+55..." string.          *)
C8_DoubleApplicationStable ==
    pc = "reformatted" => resultado2 = resultado

C8_Witness ==
    /\ pc = "reformatted"
    /\ linha = 76
    /\ resultado # numero
    /\ Len(local) = 9
    /\ Len(resultado) = 13
    /\ resultado2 = resultado

InsertAt(s, i, c) == SubSeq(s, 1, i) \o <<c>> \o SubSeq(s, i + 1, Len(s))

Variants(s) ==
    {OnlyDigits(s), <<"+">> \o s} \cup { InsertAt(s, i, "-") : i \in 1..Len(s) }

(* C10: two strings with the same digit sequence either both fall back,     *)
(* each to itself, or both return the same "+55..." string, whose DDD is    *)
(* the first two digits left after trunk and country removal.               *)
C10_DependsOnDigitsOnly ==
    pc = "formatted" =>
        /\ \A v \in Variants(numero) :
              LET r == formatar_numero(v) IN
              \/ resultado = numero /\ r = v /\ linha = 54
              \/ resultado = r /\ linha = 76
        /\ linha = 76 => SubSeq(resultado, 4, 5) = SubSeq(ExpectedDigits(numero), 1, 2)

C10_Witness ==
    /\ pc = "formatted"
    /\ numero = <<"+", "5", "5", "2", "9", "9", "8", "7", "6", "5", "4", "3", "2", "1">>
    /\ resultado = numero
    /\ formatar_numero(OnlyDigits(numero)) = resultado
    /\ OnlyDigits(numero) # numero
    /\ linha = 76

====
